---- MODULE Spec2Model ----
(***************************************************************************)
(* Settings editor container (colrev_core/frontend/src/App.tsx).           *)
(* The component holds four sub-documents and a saved flag, loads them     *)
(* once through dataService.getSettings and writes them back through       *)
(* dataService.saveSettings.  Every handler runs to its first await on the *)
(* single event loop; the continuation after an await is a separate step.  *)
(***************************************************************************)
EXTENDS Integers, Sequences, FiniteSets, TLC

\* ---------------------------------------------------------------- bounds
MaxSaves == 2
MaxEdits == 1

\* ------------------------------------------------------------- constants
KEY_S == 83

\* ---------------------------------------------------------- value domains
\* new Project() / new Prep() are the values held before the load completes
DefaultProject == "P0"
DefaultPrep == "R0"
\* the values the four editors may report
Projects == {"P0"}
Preps == {"R0"}
SourceLists == {<<"a", "b">>}
ScriptLists == {<<"x", "y">>}
\* content of the `data` object besides `scripts` ("none": no other field)
OtherVals == {"none", "o1"}
\* new Settings() carries a data object holding nothing but scripts
SettingsOther == "none"
\* e.which: the letter S and one other key
KeyCodes == {KEY_S, 65}
KeyEvents == [ctrlKey : BOOLEAN, which : KeyCodes]

\* the documents getSettings may answer with: empty or two-element lists,
\* with or without a further field in data
LoadedLists == {<< <<>>, <<>> >>, << <<"b", "a">>, <<"y", "x">> >>}
Docs == {[project |-> "P1", sources |-> l[1], prep |-> "R1",
          data |-> [scripts |-> l[2], other |-> o]] : l \in LoadedLists, o \in OtherVals}

VARIABLES
  project, sources, prep, scripts, isFileSaved,  \* useState cells
  loadState,     \* position of loadData: unloaded, loading, loaded, failed
  reqs,          \* saveSettings calls in invocation order: doc, status, alerts,
                 \* and whether an earlier call was in flight at the invocation
  persisted,     \* <<>> or <<d>>: the document of the last successful write
  loadedDoc,     \* history: <<>> or <<D>>, the document getSettings returned
  edited,        \* history: tags reported by an editor since the load completed
  reported,      \* history: the sequences the sources and scripts editors reported last
  runStart,      \* history: first request of the current edit-free run, 0 if none
  lastOk,        \* history: index of the request that resolved successfully last
  nSave,         \* history: number of onSave invocations
  nEdits,        \* history: number of editor notifications
  lastOp         \* history: the handler or continuation that ran last

prog == <<project, sources, prep, scripts, isFileSaved, loadState, reqs, persisted>>
hist == <<loadedDoc, edited, reported, runStart, lastOk, nSave, nEdits, lastOp>>
vars == <<project, sources, prep, scripts, isFileSaved, loadState, reqs, persisted,
          loadedDoc, edited, reported, runStart, lastOk, nSave, nEdits, lastOp>>

Op(o, t, v, r) == [op |-> o, tag |-> t, val |-> v, req |-> r]

Init ==
  /\ project = DefaultProject
  /\ sources = <<>>
  /\ prep = DefaultPrep
  /\ scripts = <<>>
  /\ isFileSaved = FALSE
  /\ loadState = "unloaded"
  /\ reqs = <<>>
  /\ persisted = <<>>
  /\ loadedDoc = <<>>
  /\ edited = {}
  /\ reported = [sources |-> <<>>, scripts |-> <<>>]
  /\ runStart = 0
  /\ lastOk = 0
  /\ nSave = 0
  /\ nEdits = 0
  /\ lastOp = Op("init", "none", "none", 0)

\* loadData up to its await: setIsFileSaved(false), getSettings requested
LoadStart ==
  /\ loadState = "unloaded"
  /\ isFileSaved' = FALSE
  /\ loadState' = "loading"
  /\ lastOp' = Op("loadStart", "none", "none", 0)
  /\ UNCHANGED <<project, sources, prep, scripts, reqs, persisted,
                 loadedDoc, edited, reported, runStart, lastOk, nSave, nEdits>>

\* a continuation that stores the document but never leaves the loading
\* position, so that the answer is awaited again
LoadOk_stuck(D) ==
  /\ loadState = "loading"
  /\ project' = D.project
  /\ sources' = D.sources
  /\ prep' = D.prep
  /\ scripts' = D.data.scripts
  /\ loadState' = "loading"
  /\ loadedDoc' = <<D>>
  /\ edited' = {}
  /\ runStart' = 0
  /\ lastOp' = Op("loadOk", "none", "none", 0)
  /\ UNCHANGED <<isFileSaved, reqs, persisted, reported, lastOk, nSave,
                 nEdits>>

\* loadData after the await resolved with document D
LoadOk(D) ==
  /\ loadState = "loading"
  /\ project' = D.project
  /\ sources' = D.sources
  /\ prep' = D.prep
  /\ scripts' = D.data.scripts
  /\ loadState' = "loaded"
  /\ loadedDoc' = <<D>>
  /\ edited' = {}
  /\ runStart' = 0
  /\ lastOp' = Op("loadOk", "none", "none", 0)
  /\ UNCHANGED <<isFileSaved, reqs, persisted, reported, lastOk, nSave,
                 nEdits>>

\* a rejection handler that empties the two lists
LoadFail_mut ==
  /\ loadState = "loading"
  /\ loadState' = "failed"
  /\ sources' = <<>>
  /\ scripts' = <<>>
  /\ lastOp' = Op("loadFail", "none", "none", 0)
  /\ UNCHANGED <<project, prep, isFileSaved, reqs, persisted,
                 loadedDoc, edited, reported, runStart, lastOk, nSave,
                 nEdits>>

\* getSettings rejected: the rest of loadData never runs
LoadFail ==
  /\ loadState = "loading"
  /\ loadState' = "failed"
  /\ lastOp' = Op("loadFail", "none", "none", 0)
  /\ UNCHANGED <<project, sources, prep, scripts, isFileSaved, reqs, persisted,
                 loadedDoc, edited, reported, runStart, lastOk, nSave,
                 nEdits>>

\* what every editor notification shares.  The mount effect (useEffect, [])
\* calls loadData before any handler can be dispatched, so no handler runs
\* in the unloaded state.
EditHist(t, v) ==
  /\ nEdits < MaxEdits
  /\ loadState # "unloaded"
  /\ nEdits' = nEdits + 1
  /\ edited' = edited \cup {t}
  /\ reported' = IF t \in {"sources", "scripts"} THEN [reported EXCEPT ![t] = v]
                                                ELSE reported
  /\ runStart' = 0
  /\ lastOp' = Op("edit", t, v, 0)
  /\ UNCHANGED <<loadState, reqs, persisted, loadedDoc, lastOk, nSave>>

onProjectChanged(v) ==
  /\ EditHist("project", v)
  /\ isFileSaved' = FALSE
  /\ project' = v
  /\ UNCHANGED <<sources, prep, scripts>>

onSourcesChanged(v) ==
  /\ EditHist("sources", v)
  /\ isFileSaved' = FALSE
  /\ sources' = v
  /\ UNCHANGED <<project, prep, scripts>>

\* a prep notification that also resets the script list
onPrepChanged_mut(v) ==
  /\ EditHist("prep", v)
  /\ isFileSaved' = FALSE
  /\ prep' = v
  /\ scripts' = <<>>
  /\ UNCHANGED <<project, sources>>

onPrepChanged(v) ==
  /\ EditHist("prep", v)
  /\ isFileSaved' = FALSE
  /\ prep' = v
  /\ UNCHANGED <<project, sources, scripts>>

onScriptsChanged(v) ==
  /\ EditHist("scripts", v)
  /\ isFileSaved' = FALSE
  /\ scripts' = v
  /\ UNCHANGED <<project, sources, prep>>

Reverse(q) == [i \in 1..Len(q) |-> q[Len(q) + 1 - i]]

\* an assembly that writes the sources back to front
Assemble_mut(p, so, pr, sc) ==
  [project |-> p, sources |-> Reverse(so), prep |-> pr,
   data |-> [scripts |-> sc, other |-> SettingsOther]]

\* new Settings() with the four assignments of onSave
Assemble(p, so, pr, sc) ==
  [project |-> p, sources |-> so, prep |-> pr,
   data |-> [scripts |-> sc, other |-> SettingsOther]]

\* a save that clears the source list once the document is assembled
DoSave_mut ==
  /\ loadState # "unloaded"
  /\ Len(reqs) < MaxSaves
  /\ reqs' = Append(reqs, [doc |-> Assemble(project, sources, prep, scripts),
                           status |-> "pending", alerts |-> 0,
                           overlap |-> \E i \in 1..Len(reqs) : reqs[i].status = "pending"])
  /\ isFileSaved' = FALSE
  /\ sources' = <<>>
  /\ nSave' = nSave + 1
  /\ runStart' = IF runStart = 0 THEN Len(reqs) + 1 ELSE runStart
  /\ UNCHANGED <<project, prep, scripts, loadState, persisted,
                 loadedDoc, edited, reported, lastOk, nEdits>>

\* a save that is refused while another request is in flight
DoSave_busy ==
  /\ loadState # "unloaded"
  /\ Len(reqs) < MaxSaves
  /\ \A i \in 1..Len(reqs) : reqs[i].status # "pending"
  /\ reqs' = Append(reqs, [doc |-> Assemble(project, sources, prep, scripts),
                           status |-> "pending", alerts |-> 0,
                           overlap |-> \E i \in 1..Len(reqs) : reqs[i].status = "pending"])
  /\ isFileSaved' = FALSE
  /\ nSave' = nSave + 1
  /\ runStart' = IF runStart = 0 THEN Len(reqs) + 1 ELSE runStart
  /\ UNCHANGED <<project, sources, prep, scripts, loadState, persisted,
                 loadedDoc, edited, reported, lastOk, nEdits>>

\* onSave up to its await: the document is assembled, the flag cleared and
\* saveSettings called
DoSave ==
  /\ loadState # "unloaded"
  /\ Len(reqs) < MaxSaves
  /\ reqs' = Append(reqs, [doc |-> Assemble(project, sources, prep, scripts),
                           status |-> "pending", alerts |-> 0,
                           overlap |-> \E i \in 1..Len(reqs) : reqs[i].status = "pending"])
  /\ isFileSaved' = FALSE
  /\ nSave' = nSave + 1
  /\ runStart' = IF runStart = 0 THEN Len(reqs) + 1 ELSE runStart
  /\ UNCHANGED <<project, sources, prep, scripts, loadState, persisted,
                 loadedDoc, edited, reported, lastOk, nEdits>>

onSave ==
  /\ DoSave
  /\ lastOp' = Op("save", "none", "none", Len(reqs) + 1)

\* a chord test that forgets the control modifier
IsSaveChord_mut(e) == e.which = KEY_S

IsSaveChord(e) == e.ctrlKey /\ e.which = KEY_S

onKeyDown(e) ==
  /\ loadState # "unloaded"
  /\ IF IsSaveChord(e)
       THEN /\ DoSave
            /\ lastOp' = Op("key", "prevented", e, Len(reqs) + 1)
       ELSE /\ lastOp' = Op("key", "default", e, 0)
            /\ UNCHANGED <<project, sources, prep, scripts, isFileSaved, loadState, reqs,
                           persisted, loadedDoc, edited, reported,
                           runStart, lastOk, nSave, nEdits>>

\* a write that carries the sub-documents as they are when the request
\* resolves instead of the document assembled at the invocation
SaveOk_late(i) ==
  /\ i \in 1..Len(reqs)
  /\ reqs[i].status = "pending"
  /\ reqs' = [reqs EXCEPT ![i].status = "ok"]
  /\ persisted' = <<Assemble(project, sources, prep, scripts)>>
  /\ isFileSaved' = TRUE
  /\ lastOk' = i
  /\ lastOp' = Op("saveOk", "none", "none", i)
  /\ UNCHANGED <<project, sources, prep, scripts, loadState,
                 loadedDoc, edited, reported, runStart, nSave, nEdits>>

\* a success continuation that puts the written sources back into the state
SaveOk_sync(i) ==
  /\ i \in 1..Len(reqs)
  /\ reqs[i].status = "pending"
  /\ reqs' = [reqs EXCEPT ![i].status = "ok"]
  /\ persisted' = <<reqs[i].doc>>
  /\ isFileSaved' = TRUE
  /\ sources' = reqs[i].doc.sources
  /\ lastOk' = i
  /\ lastOp' = Op("saveOk", "none", "none", i)
  /\ UNCHANGED <<project, prep, scripts, loadState,
                 loadedDoc, edited, reported, runStart, nSave, nEdits>>

\* onSave after the await of request i resolved
SaveOk(i) ==
  /\ i \in 1..Len(reqs)
  /\ reqs[i].status = "pending"
  /\ reqs' = [reqs EXCEPT ![i].status = "ok"]
  /\ persisted' = <<reqs[i].doc>>
  /\ isFileSaved' = TRUE
  /\ lastOk' = i
  /\ lastOp' = Op("saveOk", "none", "none", i)
  /\ UNCHANGED <<project, sources, prep, scripts, loadState,
                 loadedDoc, edited, reported, runStart, nSave, nEdits>>

\* a catch block that marks the file saved
SaveFail_mut(i) ==
  /\ i \in 1..Len(reqs)
  /\ reqs[i].status = "pending"
  /\ reqs' = [reqs EXCEPT ![i].status = "failed", ![i].alerts = @ + 1]
  /\ isFileSaved' = TRUE
  /\ lastOp' = Op("saveFail", "none", "none", i)
  /\ UNCHANGED <<project, sources, prep, scripts, loadState, persisted,
                 loadedDoc, edited, reported, runStart, lastOk, nSave,
                 nEdits>>

\* onSave after the await of request i rejected: the catch block
SaveFail(i) ==
  /\ i \in 1..Len(reqs)
  /\ reqs[i].status = "pending"
  /\ reqs' = [reqs EXCEPT ![i].status = "failed", ![i].alerts = @ + 1]
  /\ lastOp' = Op("saveFail", "none", "none", i)
  /\ UNCHANGED <<project, sources, prep, scripts, isFileSaved, loadState, persisted,
                 loadedDoc, edited, reported, runStart, lastOk, nSave,
                 nEdits>>

Next ==
  \/ LoadStart
  \/ \E D \in Docs : LoadOk(D)
  \/ LoadFail
  \/ \E v \in Projects : onProjectChanged(v)
  \/ \E v \in SourceLists : onSourcesChanged(v)
  \/ \E v \in Preps : onPrepChanged(v)
  \/ \E v \in ScriptLists : onScriptsChanged(v)
  \/ onSave
  \/ \E e \in KeyEvents : onKeyDown(e)
  \/ \E i \in 1..MaxSaves : SaveOk(i)
  \/ \E i \in 1..MaxSaves : SaveFail(i)

Spec == Init /\ [][Next]_vars

\* Progress does not depend on the data: the fair specification draws the
\* loaded document from the two documents without a further data field and
\* the key from the chord and the bare letter S.
LiveDocs == {d \in Docs : d.data.other = "none"}
LiveKeys == {e \in KeyEvents : e.which = KEY_S}

LiveNext ==
  \/ LoadStart
  \/ \E D \in LiveDocs : LoadOk(D)
  \/ LoadFail
  \/ \E v \in Projects : onProjectChanged(v)
  \/ \E v \in SourceLists : onSourcesChanged(v)
  \/ \E v \in Preps : onPrepChanged(v)
  \/ \E v \in ScriptLists : onScriptsChanged(v)
  \/ onSave
  \/ \E e \in LiveKeys : onKeyDown(e)
  \/ \E i \in 1..MaxSaves : SaveOk(i)
  \/ \E i \in 1..MaxSaves : SaveFail(i)

\* The mount effect runs loadData, and the persistence collaborator answers
\* every getSettings and saveSettings request, with success or failure.
FairSpec ==
  /\ Init
  /\ [][LiveNext]_vars
  /\ WF_vars(LoadStart)
  /\ WF_vars((\E D \in LiveDocs : LoadOk(D)) \/ LoadFail)
  /\ \A i \in 1..MaxSaves : WF_vars(SaveOk(i) \/ SaveFail(i))

TypeOK ==
  /\ project \in Projects \cup {DefaultProject, "P1"}
  /\ sources \in SourceLists \cup {<<>>, <<"b", "a">>}
  /\ prep \in Preps \cup {DefaultPrep, "R1"}
  /\ scripts \in ScriptLists \cup {<<>>, <<"y", "x">>}
  /\ isFileSaved \in BOOLEAN
  /\ loadState \in {"unloaded", "loading", "loaded", "failed"}
  /\ Len(reqs) <= MaxSaves

\* ------------------------------------------------------------ properties
\* the step just taken was an onSave invocation, by the button or the chord
SaveStep == lastOp'.op = "save" \/ (lastOp'.op = "key" /\ lastOp'.tag = "prevented")
\* the document the invocation just made handed to saveSettings
NewDoc == reqs'[Len(reqs')].doc
Mem(d) == <<d.project, d.sources, d.prep, d.data.scripts>>

\* C1: a save invoked right after the load completed, with no editor
\* notification in between, hands saveSettings the document getSettings
\* returned.
C1_RoundTrip ==
  [][(lastOp.op = "loadOk" /\ SaveStep) => NewDoc = loadedDoc[1]]_vars

\* C2: (a) saved is false right after the load completes; (b) saved is false
\* right after every editor notification; (c) saved is true right after a
\* successful save and stays true until the next editor notification.
C2_DirtyTracking ==
  [][/\ (lastOp'.op = "loadOk" => ~isFileSaved')
     /\ (lastOp'.op = "edit" => ~isFileSaved')
     /\ (lastOp'.op = "saveOk" => isFileSaved')
     /\ ((isFileSaved /\ lastOp'.op # "edit") => isFileSaved')]_vars

\* C3: whenever saved is true, the four stored sub-documents equal those of
\* the last successfully persisted document.
C3_SavedMeansPersisted ==
  isFileSaved =>
    /\ persisted # <<>>
    /\ Mem(persisted[1]) = <<project, sources, prep, scripts>>

\* C4: every save invoked after the load completed carries the loaded
\* document's `data` fields other than `scripts` with their loaded values.
C4_KeepsUneditedFields ==
  [][(loadState = "loaded" /\ SaveStep) =>
       NewDoc.data.other = loadedDoc[1].data.other]_vars

\* C5: when a save fails, saved is false right after the failure is handled,
\* exactly one alert is issued for that save, and the number of saveSettings
\* requests never exceeds the number of onSave invocations.
C5_SaveFailure ==
  [][/\ (lastOp'.op = "saveFail" =>
           /\ ~isFileSaved'
           /\ reqs'[lastOp'.req].alerts = 1)
     /\ \A i \in 1..Len(reqs) :
           reqs[i].status = "failed" => reqs'[i].alerts = 1
     /\ Len(reqs') = nSave']_vars

\* C6: an editor notification for tag t with value v sets the stored
\* sub-document t to v and leaves the other three sub-documents unchanged.
C6_Isolation ==
  [][lastOp'.op = "edit" =>
       /\ (lastOp'.tag = "project" =>
             project' = lastOp'.val /\ UNCHANGED <<sources, prep, scripts>>)
       /\ (lastOp'.tag = "sources" =>
             sources' = lastOp'.val /\ UNCHANGED <<project, prep, scripts>>)
       /\ (lastOp'.tag = "prep" =>
             prep' = lastOp'.val /\ UNCHANGED <<project, sources, scripts>>)
       /\ (lastOp'.tag = "scripts" =>
             scripts' = lastOp'.val /\ UNCHANGED <<project, sources, prep>>)]_vars

\* a prep notification arrived while project, sources and scripts held
\* loaded, non-default values, and prep now holds the reported value
C6_Witness ==
  /\ lastOp.op = "edit"
  /\ lastOp.tag = "prep"
  /\ lastOp.val = "R0"
  /\ prep = "R0"
  /\ loadState = "loaded"
  /\ project = "P1"
  /\ sources = <<"b", "a">>
  /\ scripts = <<"y", "x">>

\* what one onSave invocation does to the component and its collaborator
SaveEffect ==
  /\ reqs' = Append(reqs, [doc |-> [project |-> project, sources |-> sources,
                                    prep |-> prep,
                                    data |-> [scripts |-> scripts,
                                              other |-> SettingsOther]],
                           status |-> "pending", alerts |-> 0,
                           overlap |-> \E i \in 1..Len(reqs) : reqs[i].status = "pending"])
  /\ isFileSaved' = FALSE
  /\ UNCHANGED <<project, sources, prep, scripts, loadState, persisted>>

\* C7: a key event with the control modifier and the letter S suppresses the
\* default and has exactly the effect of an onSave invocation (same next
\* state, same request); every other key event changes no state, issues no
\* request and leaves the default in place.
C7_ShortcutEquivalence ==
  [][/\ (lastOp'.op = "save" => SaveEffect)
     /\ (lastOp'.op = "key" =>
           IF lastOp'.val.ctrlKey /\ lastOp'.val.which = KEY_S
             THEN SaveEffect /\ lastOp'.tag = "prevented"
             ELSE UNCHANGED prog /\ lastOp'.tag = "default")]_vars

\* the chord was pressed after the load and an edit, and its request is
\* still in flight
C7_Witness ==
  /\ lastOp.op = "key"
  /\ lastOp.tag = "prevented"
  /\ lastOp.val.ctrlKey
  /\ loadState = "loaded"
  /\ edited # {}
  /\ reqs[lastOp.req].status = "pending"
  /\ Mem(reqs[lastOp.req].doc) = <<project, sources, prep, scripts>>
  /\ ~isFileSaved

C9_SaveIdempotent ==
  runStart > 0 =>
    /\ \A i, j \in runStart..Len(reqs) : reqs[i].doc = reqs[j].doc
    /\ ( /\ Len(reqs) > runStart
         /\ \A i \in runStart..Len(reqs) : reqs[i].status = "ok"
         /\ lastOk >= runStart )
       => /\ persisted = <<reqs[runStart].doc>>
          /\ isFileSaved
          /\ <<project, sources, prep, scripts>> = Mem(reqs[runStart].doc)

\* two saves of a loaded, edited state were invoked back to back and both
\* succeeded
C9_Witness ==
  /\ runStart = 1
  /\ Len(reqs) = 2
  /\ reqs[1].status = "ok"
  /\ reqs[2].status = "ok"
  /\ loadState = "loaded"
  /\ edited # {}
  /\ sources # <<>>

\* C10: in every state with saved = true some saveSettings request has
\* completed successfully, and only the success continuation of a save ever
\* turns saved from false to true.
C10_SavedOnlyBySuccess ==
  [][/\ (isFileSaved' => (lastOk' > 0 /\ reqs'[lastOk'].status = "ok"))
     /\ ((~isFileSaved /\ isFileSaved') => lastOp'.op = "saveOk")]_vars

\* a save succeeded and turned saved to true after an earlier one had failed
\* without doing so
C10_Witness ==
  /\ lastOp.op = "saveOk"
  /\ isFileSaved
  /\ lastOk = 2
  /\ reqs[1].status = "failed"
  /\ loadState = "loaded"

\* C11: before the load has completed, saved is never true and no
\* saveSettings request has been issued (save takes effect only once the
\* session is loaded).
C11_SaveOnlyWhenLoaded ==
  loadState # "loaded" => (~isFileSaved /\ reqs = <<>>)

\* C12: when getSettings fails, the four sub-documents and saved keep their
\* values, no alert is issued, no saveSettings request appears, and the load
\* is never requested again.
C12_LoadFailureSilent ==
  [][/\ (lastOp'.op = "loadFail" =>
           /\ UNCHANGED <<project, sources, prep, scripts, isFileSaved, reqs,
                          persisted>>
           /\ loadState' = "failed")
     /\ (loadState = "failed" => loadState' = "failed")]_vars

\* getSettings failed after an editor had reported a value and a save had
\* succeeded: the edit and the flag are still there
C12_Witness ==
  /\ lastOp.op = "loadFail"
  /\ loadState = "failed"
  /\ edited = {"sources"}
  /\ sources = <<"a", "b">>
  /\ isFileSaved

\* some saveSettings request has not resolved yet
InFlight == \E i \in 1..Len(reqs) : reqs[i].status = "pending"

\* C13: while a save is in flight every editor notification and a further
\* save are still enabled (below the model's caps); such a notification sets
\* its sub-document and saved = false at once and touches no request, and
\* such a save adds one pending request and leaves the earlier ones as they
\* were, neither resolved nor cancelled.
C13_ResponsiveWhileSaving ==
  /\ [](InFlight =>
          /\ (nEdits < MaxEdits =>
                /\ \A v \in Projects : ENABLED onProjectChanged(v)
                /\ \A v \in SourceLists : ENABLED onSourcesChanged(v)
                /\ \A v \in Preps : ENABLED onPrepChanged(v)
                /\ \A v \in ScriptLists : ENABLED onScriptsChanged(v))
          /\ (Len(reqs) < MaxSaves =>
                /\ ENABLED onSave
                /\ ENABLED onKeyDown([ctrlKey |-> TRUE, which |-> KEY_S])))
  /\ [][InFlight =>
          /\ (lastOp'.op = "edit" =>
                /\ ~isFileSaved'
                /\ reqs' = reqs
                /\ (lastOp'.tag = "project" => project' = lastOp'.val)
                /\ (lastOp'.tag = "sources" => sources' = lastOp'.val)
                /\ (lastOp'.tag = "prep" => prep' = lastOp'.val)
                /\ (lastOp'.tag = "scripts" => scripts' = lastOp'.val))
          /\ (SaveStep =>
                /\ Len(reqs') = Len(reqs) + 1
                /\ reqs'[Len(reqs')].status = "pending"
                /\ \A i \in 1..Len(reqs) : reqs'[i] = reqs[i])]_vars

\* a second save was invoked while the first was in flight, then an editor
\* reported new sources while both were
C13_Witness ==
  /\ Len(reqs) = 2
  /\ reqs[1].status = "pending"
  /\ reqs[2].status = "pending"
  /\ lastOp.op = "edit"
  /\ lastOp.tag = "sources"
  /\ sources = <<"a", "b">>
  /\ reqs[2].doc.sources # sources
  /\ ~isFileSaved

\* C14: the document of a request holds the four sub-documents as they were
\* when onSave was invoked; no later step changes the document a request
\* carries, and a successful write stores exactly that document.
C14_SnapshotAtInvocation ==
  [][/\ (SaveStep => Mem(NewDoc) = <<project, sources, prep, scripts>>)
     /\ \A i \in 1..Len(reqs) : reqs'[i].doc = reqs[i].doc
     /\ (lastOp'.op = "saveOk" => persisted' = <<reqs[lastOp'.req].doc>>)]_vars

\* a request resolved after the load completed and an editor reported new
\* sources while it was in flight: the written document has the old sources
C14_Witness ==
  /\ lastOp.op = "saveOk"
  /\ loadState = "loaded"
  /\ edited = {"sources"}
  /\ sources = <<"a", "b">>
  /\ persisted # <<>>
  /\ persisted[1].sources = <<"b", "a">>
  /\ reqs[lastOp.req].doc.sources = <<"b", "a">>

\* the step just taken was an editor notification for tag t
EditOf(t) == lastOp'.op = "edit" /\ lastOp'.tag = t

\* C15: once an editor has reported a value for a tag, the stored
\* sub-document of that tag changes only through the next notification for
\* the same tag; in particular the completion of the load leaves it alone.
C15_EditNotLost ==
  [][/\ (("project" \in edited /\ ~EditOf("project")) => project' = project)
     /\ (("sources" \in edited /\ ~EditOf("sources")) => sources' = sources)
     /\ (("prep" \in edited /\ ~EditOf("prep")) => prep' = prep)
     /\ (("scripts" \in edited /\ ~EditOf("scripts")) => scripts' = scripts)]_vars

\* C16: when some save was invoked while another was in flight and every
\* request has resolved successfully, the persisted document is the one the
\* most recently invoked save assembled, and saved = true implies that the
\* persisted document holds the four stored sub-documents.
C16_LastInvokedWins ==
  ( /\ \E i \in 1..Len(reqs) : reqs[i].overlap
    /\ \A i \in 1..Len(reqs) : reqs[i].status = "ok" )
  => /\ persisted = <<reqs[Len(reqs)].doc>>
     /\ (isFileSaved => Mem(persisted[1]) = <<project, sources, prep, scripts>>)

\* C17: the invocation of a save, its success continuation and its failure
\* continuation leave project, sources, prep and scripts unchanged (and the
\* position of the load with them); of the component's state cells only
\* saved may change.
C17_SaveKeepsData ==
  [][(SaveStep \/ lastOp'.op \in {"saveOk", "saveFail"}) =>
       UNCHANGED <<project, sources, prep, scripts, loadState>>]_vars

\* one save succeeded and another failed around an edit of the sources, and
\* the edited sources are still in place
C17_Witness ==
  /\ Len(reqs) = 2
  /\ reqs[1].status = "ok"
  /\ reqs[2].status = "failed"
  /\ lastOp.op = "saveFail"
  /\ loadState = "loaded"
  /\ edited = {"sources"}
  /\ sources = <<"a", "b">>
  /\ reqs[1].doc.sources = <<"b", "a">>

\* C18: if the collaborator answers every request, every saveSettings
\* request leaves the pending state, and the load ends loaded or failed; a
\* request resolves once (a resolved request never changes again), a
\* success sets saved = true without an alert and a failure issues exactly
\* one alert.
C18_EverySaveResolves ==
  /\ \A i \in 1..MaxSaves : (Len(reqs) >= i) ~> (Len(reqs) >= i /\ reqs[i].status # "pending")
  /\ <>(loadState \in {"loaded", "failed"})
  /\ [][/\ \A i \in 1..Len(reqs) :
              reqs[i].status # "pending" => reqs'[i] = reqs[i]
        /\ (lastOp'.op = "saveOk" =>
              /\ isFileSaved'
              /\ reqs'[lastOp'.req].status = "ok"
              /\ reqs'[lastOp'.req].alerts = 0)
        /\ (lastOp'.op = "saveFail" =>
              /\ reqs'[lastOp'.req].status = "failed"
              /\ reqs'[lastOp'.req].alerts = 1)]_vars

\* two overlapping saves have both resolved, one each way, after the load
\* completed
C18_Witness ==
  /\ Len(reqs) = 2
  /\ reqs[2].overlap
  /\ reqs[1].status = "failed"
  /\ reqs[1].alerts = 1
  /\ reqs[2].status = "ok"
  /\ reqs[2].alerts = 0
  /\ loadState = "loaded"
====
